---------------------------- MODULE Spec2Model ----------------------------
(***************************************************************************)
(* A model of src/Fire.js, the "Fire" effect of Burn-My-Windows: the       *)
(* preference page (key bindings, colour reset, preset menu) and the       *)
(* shader (lazy class registration, uniform locations, beginAnimation).    *)
(*                                                                         *)
(* Representation of JavaScript values:                                    *)
(*   - a double is an integer number of tenths (1.5 is 15, -0.1 is -1);    *)
(*   - a colour string is a record of its text: the functional notation    *)
(*     (form), whether a blank follows each comma (sp), the three channel  *)
(*     numbers and the alpha number as its integer part and the sequence   *)
(*     of its fractional digits ("0.24" is aint 0, afrac <<2, 4>>);        *)
(*   - a float passed to a uniform is a fraction [n, d], the value n / d.  *)
(* Every handler runs to completion on the single event loop, so each      *)
(* handler is one action.                                                  *)
(***************************************************************************)
EXTENDS Integers, Sequences, FiniteSets, TLC

\* ------------------------------------------------------------------ bounds

\* The number of shader instances createShader may construct.
MaxShaders == 2

\* The number of getPreferences calls (each for its own dialog context) one
\* preferences dialog makes.
MaxPages == 1

\* The number of dialog contexts one effect object serves.
MaxDialogs == 2

\* The number of 'realize' events the toolkit emits on one page.
MaxRealize == 2

\* ------------------------------------------------------------ colour strings

Rgba(sp, r, g, b, aint, afrac) ==
  [form |-> "rgba", sp |-> sp, r |-> r, g |-> g, b |-> b,
   aint |-> aint, afrac |-> afrac]

Rgb(r, g, b) ==
  [form |-> "rgb", sp |-> FALSE, r |-> r, g |-> g, b |-> b,
   aint |-> 0, afrac |-> <<>>]

Clamp(x, lo, hi) == IF x < lo THEN lo ELSE IF x > hi THEN hi ELSE x

RECURSIVE Pow10(_)
Pow10(n) == IF n = 0 THEN 1 ELSE 10 * Pow10(n - 1)

RECURSIVE DigitsValue(_)
\* The integer written by a sequence of decimal digits.
DigitsValue(ds) ==
  IF ds = <<>> THEN 0
  ELSE 10 * DigitsValue(SubSeq(ds, 1, Len(ds) - 1)) + ds[Len(ds)]

\* Clutter.Color.from_string(str)[1]: the channels of rgb() and rgba() are
\* clamped to 0..255; the alpha of rgba() is a number clamped to [0, 1] and
\* scaled to a byte (truncated); rgb() is opaque.
from_string(str) ==
  LET den   == Pow10(Len(str.afrac))
      num   == str.aint * den + DigitsValue(str.afrac)
      alpha == IF str.form = "rgb" THEN 255
               ELSE (Clamp(num, 0, den) * 255) \div den
  IN  [red   |-> Clamp(str.r, 0, 255),
       green |-> Clamp(str.g, 0, 255),
       blue  |-> Clamp(str.b, 0, 255),
       alpha |-> alpha]

\* ----------------------------------------------------------------- presets

presets ==
  << [name   |-> "Default Fire", scale |-> 10, speed |-> 5,
      color1 |-> Rgba(TRUE, 76, 51, 25, 0, <<0>>),
      color2 |-> Rgba(TRUE, 180, 55, 30, 0, <<7>>),
      color3 |-> Rgba(TRUE, 255, 76, 38, 0, <<9>>),
      color4 |-> Rgba(TRUE, 255, 166, 25, 1, <<>>),
      color5 |-> Rgba(TRUE, 255, 255, 255, 1, <<>>)],
     [name   |-> "Hell Fire", scale |-> 15, speed |-> 2,
      color1 |-> Rgba(FALSE, 0, 0, 0, 0, <<>>),
      color2 |-> Rgba(FALSE, 103, 7, 80, 0, <<5>>),
      color3 |-> Rgba(FALSE, 150, 0, 24, 0, <<9>>),
      color4 |-> Rgb(255, 200, 0),
      color5 |-> Rgba(TRUE, 255, 255, 255, 1, <<>>)],
     [name   |-> "Dark and Smutty", scale |-> 10, speed |-> 5,
      color1 |-> Rgba(FALSE, 0, 0, 0, 0, <<>>),
      color2 |-> Rgba(FALSE, 36, 3, 0, 0, <<5>>),
      color3 |-> Rgba(FALSE, 150, 0, 24, 0, <<9>>),
      color4 |-> Rgb(255, 177, 21),
      color5 |-> Rgb(255, 238, 166)],
     [name   |-> "Cold Breeze", scale |-> 15, speed |-> -1,
      color1 |-> Rgba(FALSE, 0, 110, 255, 0, <<>>),
      color2 |-> Rgba(FALSE, 30, 111, 180, 0, <<2, 4>>),
      color3 |-> Rgba(FALSE, 38, 181, 255, 0, <<5, 4>>),
      color4 |-> Rgba(FALSE, 34, 162, 255, 0, <<8, 4>>),
      color5 |-> Rgb(97, 189, 255)],
     [name   |-> "Santa is Coming", scale |-> 4, speed |-> -5,
      color1 |-> Rgba(FALSE, 0, 110, 255, 0, <<>>),
      color2 |-> Rgba(FALSE, 208, 233, 255, 0, <<2, 4>>),
      color3 |-> Rgba(FALSE, 207, 235, 255, 0, <<8, 4>>),
      color4 |-> Rgb(208, 243, 255),
      color5 |-> Rgb(255, 255, 255)] >>

\* JavaScript's forEach index i runs over 0 .. presets.length - 1.
PresetIndex == 0 .. (Len(presets) - 1)

\* A faulty closure: every handler sees the preset the loop visited last.
preset_Shared(i) == presets[Len(presets)]

preset(i) == presets[i + 1]

\* ----------------------------------------------------- configuration store

ColorKeys ==
  <<"fire-color-1", "fire-color-2", "fire-color-3", "fire-color-4",
    "fire-color-5">>

\* 'fire-color-' + i, for i in 1 .. 5.
ColorKey(i) == ColorKeys[i]

Keys ==
  {"fire-animation-time", "flame-movement-speed", "flame-scale",
   "flame-3d-noise"} \cup {ColorKey(i) : i \in 1 .. 5}

\* The declared defaults of the keys live in the settings schema, which is
\* not part of Fire.js: the model runs under each of two candidate schemas,
\* one whose gradient is that of the first preset and one whose gradient is
\* no preset's.
Schemas ==
  { [k \in Keys |->
       CASE k = "fire-animation-time"  -> 1500
         [] k = "flame-movement-speed" -> 5
         [] k = "flame-scale"          -> 10
         [] k = "flame-3d-noise"       -> FALSE
         [] k = "fire-color-1"         -> Rgba(TRUE, 76, 51, 25, 0, <<0>>)
         [] k = "fire-color-2"         -> Rgba(TRUE, 180, 55, 30, 0, <<7>>)
         [] k = "fire-color-3"         -> Rgba(TRUE, 255, 76, 38, 0, <<9>>)
         [] k = "fire-color-4"         -> Rgba(TRUE, 255, 166, 25, 1, <<>>)
         [] k = "fire-color-5"         -> Rgba(TRUE, 255, 255, 255, 1, <<>>)],
    [k \in Keys |->
       CASE k = "fire-animation-time"  -> 2000
         [] k = "flame-movement-speed" -> 3
         [] k = "flame-scale"          -> 12
         [] k = "flame-3d-noise"       -> TRUE
         [] k = "fire-color-1"         -> Rgba(FALSE, 10, 20, 30, 0, <<1>>)
         [] k = "fire-color-2"         -> Rgba(FALSE, 40, 50, 60, 0, <<2, 5>>)
         [] k = "fire-color-3"         -> Rgb(70, 80, 90)
         [] k = "fire-color-4"         -> Rgba(FALSE, 100, 110, 120, 0, <<7, 5>>)
         [] k = "fire-color-5"         -> Rgb(200, 210, 220)] }

\* Writes that reach the store from outside the handlers of Fire.js (a bound
\* widget edited by the user, another process): the switch, either way.
Edits == { <<"flame-3d-noise", TRUE>>, <<"flame-3d-noise", FALSE>> }

\* Writes from outside to a key the shader does not read.
AnimEdits == { <<"fire-animation-time", 1000>>, <<"fire-animation-time", 1500>> }

\* The values a user sets through the bound widgets of the page.
WidgetEdits ==
  { <<"fire-color-1", Rgb(1, 2, 3)>>,
    <<"fire-color-5", Rgba(FALSE, 4, 5, 6, 0, <<5>>)>>,
    <<"flame-scale", 20>> }

\* Colour strings a store may hold: in range, a channel above 255, a channel
\* below 0, an alpha above 1, transparent, opaque.
ColourInputs ==
  << Rgba(TRUE, 180, 55, 30, 0, <<7>>),
     Rgb(300, 0, 128),
     Rgba(FALSE, -5, 255, 0, 0, <<2, 4>>),
     Rgba(FALSE, 10, 20, 30, 1, <<5>>),
     Rgba(FALSE, 0, 0, 0, 0, <<>>),
     Rgb(255, 255, 255) >>

\* The configurations the shader is started from: six gradients over the
\* colour inputs, two scales, two speeds, the switch either way.
AnyConfigs ==
  { [k \in Keys |->
       CASE k = "fire-animation-time"  -> 1500
         [] k = "flame-movement-speed" -> sp
         [] k = "flame-scale"          -> sc
         [] k = "flame-3d-noise"       -> nz
         [] OTHER ->
              LET i == CHOOSE j \in 1 .. 5 : ColorKey(j) = k
              IN  ColourInputs[((i + g) % Len(ColourInputs)) + 1]] :
    g \in 0 .. (Len(ColourInputs) - 1), sc \in {4, 15}, sp \in {-5, 5},
    nz \in BOOLEAN }

\* ------------------------------------------------------------ the template

\* The widgets Fire.js looks up by id in Fire.ui.
Referenced == {"reset-fire-colors", "fire-preset-button", "fire-prefs"}

\* Fire.ui as shipped holds all three; the other templates lack one of them.
Templates == {Referenced} \cup {Referenced \ {w} : w \in Referenced}

\* ------------------------------------------------------------------ shader

UniformNames ==
  <<"uGradient1", "uGradient2", "uGradient3", "uGradient4", "uGradient5",
    "u3DNoise", "uScale", "uMovementSpeed">>

Locations == 1 .. Len(UniformNames)

\* The location of a uniform of the compiled program.
get_uniform_location(name) ==
  CHOOSE l \in Locations : UniformNames[l] = name

\* JavaScript values handed to set_uniform_float.
JsBool(b) == <<"boolean", b>>
JsNum(n, d) == <<"number", n, d>>

\* A float array element: a boolean becomes 1 or 0, a number itself.
ToFloat(v) ==
  IF v[1] = "boolean" THEN [n |-> IF v[2] THEN 1 ELSE 0, d |-> 1]
  ELSE [n |-> v[2], d |-> v[3]]

VARIABLES
  defaults,     \* the schema's declared default of every key
  store,        \* the configuration store: key -> value
  last,         \* history: the last handler that wrote the store
  template,     \* the widget ids Fire.ui holds
  pages,        \* one record per getPreferences call
  ShaderClass,  \* effect._ShaderClass: "undefined" or the registered class
  registered,   \* history: the number of GObject.registerClass calls
  shaders,      \* the heap of shader instances, indexed by object id
  returned,     \* history: the object ids createShader returned, in order
  recent        \* history: the most recent activation, and what came after

vars ==
  <<defaults, store, last, template, pages, ShaderClass, registered, shaders,
    returned, recent>>

\* ------------------------------------------------------ store operations

\* settings.set_double(k, v), settings.set_string(k, v): a plain overwrite.
set_value(st, k, v) == [st EXCEPT ![k] = v]

RECURSIVE ApplyWrites(_, _)
\* A handler's writes, one after the other, in program order.
ApplyWrites(st, ws) ==
  IF ws = <<>> THEN st
  ELSE ApplyWrites(set_value(st, ws[1][1], ws[1][2]), Tail(ws))

\* A faulty handler: the scale is written to the speed key and the speed to
\* the scale key.
PresetWrites_Swapped(pr) ==
  << <<"flame-movement-speed", pr.scale>>,
     <<"flame-scale", pr.speed>>,
     <<"fire-color-1", pr.color1>>,
     <<"fire-color-2", pr.color2>>,
     <<"fire-color-3", pr.color3>>,
     <<"fire-color-4", pr.color4>>,
     <<"fire-color-5", pr.color5>> >>

\* The body of the 'activate' handler of one preset's action.
PresetWrites(pr) ==
  << <<"flame-movement-speed", pr.speed>>,
     <<"flame-scale", pr.scale>>,
     <<"fire-color-1", pr.color1>>,
     <<"fire-color-2", pr.color2>>,
     <<"fire-color-3", pr.color3>>,
     <<"fire-color-4", pr.color4>>,
     <<"fire-color-5", pr.color5>> >>

\* A faulty handler: the last colour is not reset.
ResetWrites_Four(dflt) ==
  << <<"fire-color-1", dflt["fire-color-1"]>>,
     <<"fire-color-2", dflt["fire-color-2"]>>,
     <<"fire-color-3", dflt["fire-color-3"]>>,
     <<"fire-color-4", dflt["fire-color-4"]>> >>

\* A faulty handler that resets every key of the schema.
ResetWrites_EveryKey(dflt) ==
  << <<"fire-animation-time", dflt["fire-animation-time"]>>,
     <<"flame-movement-speed", dflt["flame-movement-speed"]>>,
     <<"flame-scale", dflt["flame-scale"]>>,
     <<"flame-3d-noise", dflt["flame-3d-noise"]>>,
     <<"fire-color-1", dflt["fire-color-1"]>>,
     <<"fire-color-2", dflt["fire-color-2"]>>,
     <<"fire-color-3", dflt["fire-color-3"]>>,
     <<"fire-color-4", dflt["fire-color-4"]>>,
     <<"fire-color-5", dflt["fire-color-5"]>> >>

\* The body of the 'clicked' handler of the reset button: settings.reset(k)
\* writes the declared default of k.
ResetWrites(dflt) ==
  << <<"fire-color-1", dflt["fire-color-1"]>>,
     <<"fire-color-2", dflt["fire-color-2"]>>,
     <<"fire-color-3", dflt["fire-color-3"]>>,
     <<"fire-color-4", dflt["fire-color-4"]>>,
     <<"fire-color-5", dflt["fire-color-5"]>> >>

NoHandler == [op |-> "none", page |-> 0, name |-> <<>>, n |-> 0, writes |-> <<>>]

\* The keys a preset holds a value for.
BundleKeys ==
  {"flame-movement-speed", "flame-scale", "fire-color-1", "fire-color-2",
   "fire-color-3", "fire-color-4", "fire-color-5"}

\* No preset activated, no reset clicked, no bundle key written otherwise.
NoRecent == [entry |-> 0, reset |-> FALSE, others |-> FALSE]

\* ------------------------------------------------------ shader operations

NotSet == <<>>

\* How often each location has been resolved by the get_uniform_location
\* calls for the given names.
Resolutions(names) ==
  [l \in Locations |->
     Cardinality({j \in DOMAIN names : get_uniform_location(names[j]) = l})]

\* new ShaderClass(effect): _init resolves the eight locations.
ShaderInit(id, st) ==
  [id              |-> id,
   _uGradient      |-> << get_uniform_location("uGradient1"),
                          get_uniform_location("uGradient2"),
                          get_uniform_location("uGradient3"),
                          get_uniform_location("uGradient4"),
                          get_uniform_location("uGradient5") >>,
   _u3DNoise       |-> get_uniform_location("u3DNoise"),
   _uScale         |-> get_uniform_location("uScale"),
   _uMovementSpeed |-> get_uniform_location("uMovementSpeed"),
   resolved        |-> Resolutions(<< "uGradient1", "uGradient2", "uGradient3",
                                      "uGradient4", "uGradient5", "u3DNoise",
                                      "uScale", "uMovementSpeed" >>),
   begun           |-> FALSE,
   slots           |-> [l \in Locations |-> NotSet],
   nwrites         |-> [l \in Locations |-> 0],
   ctorNoise       |-> st["flame-3d-noise"]]

\* this.set_uniform_float(location, n, values) on instance sh.
set_uniform_float(sh, loc, n, values) ==
  [sh EXCEPT !.slots[loc]   = [j \in 1 .. n |-> ToFloat(values[j])],
             !.nwrites[loc] = @ + 1]

\* A faulty conversion: the channels are passed on as bytes, undivided.
GradientValues_NoDivide(str) ==
  LET c == from_string(str)
  IN  << JsNum(c.red, 1), JsNum(c.green, 1), JsNum(c.blue, 1),
         JsNum(c.alpha, 1) >>

\* The four floats beginAnimation derives from one colour string.
GradientValues(str) ==
  LET c == from_string(str)
  IN  << JsNum(c.red, 255), JsNum(c.green, 255), JsNum(c.blue, 255),
         JsNum(c.alpha, 255) >>

RECURSIVE LoadGradient_SkipLast(_, _, _)
\* A faulty loop that ends one colour early (i < 5).
LoadGradient_SkipLast(sh, settings, i) ==
  IF i >= 5 THEN sh
  ELSE LoadGradient_SkipLast(
         set_uniform_float(sh, sh._uGradient[i], 4,
                           GradientValues(settings[ColorKey(i)])),
         settings, i + 1)

RECURSIVE LoadGradient(_, _, _)
\* The for loop of beginAnimation, from index i on.
LoadGradient(sh, settings, i) ==
  IF i > 5 THEN sh
  ELSE LoadGradient(
         set_uniform_float(sh, sh._uGradient[i], 4,
                           GradientValues(settings[ColorKey(i)])),
         settings, i + 1)

\* A faulty shader that uploads the switch as the store held it when the
\* instance was constructed.
beginAnimation_Cached(sh, settings) ==
  LET s1 == LoadGradient(sh, settings, 1)
      s2 == set_uniform_float(s1, s1._u3DNoise, 1, << JsBool(sh.ctorNoise) >>)
      s3 == set_uniform_float(s2, s2._uScale, 1,
                              << JsNum(settings["flame-scale"], 10) >>)
      s4 == set_uniform_float(s3, s3._uMovementSpeed, 1,
                              << JsNum(settings["flame-movement-speed"], 10) >>)
  IN  [s4 EXCEPT !.begun = TRUE]

\* A faulty shader that resolves the location of uScale again before it
\* writes the uniform.
beginAnimation_Resolving(sh, settings) ==
  LET s1 == LoadGradient(sh, settings, 1)
      s2 == set_uniform_float(s1, s1._u3DNoise, 1,
                              << JsBool(settings["flame-3d-noise"]) >>)
      s3 == set_uniform_float(
              [s2 EXCEPT !.resolved[get_uniform_location("uScale")] = @ + 1],
              get_uniform_location("uScale"), 1,
              << JsNum(settings["flame-scale"], 10) >>)
      s4 == set_uniform_float(s3, s3._uMovementSpeed, 1,
                              << JsNum(settings["flame-movement-speed"], 10) >>)
  IN  [s4 EXCEPT !.begun = TRUE]

\* ShaderClass.beginAnimation(actor, settings, forOpening) on instance sh.
beginAnimation(sh, settings) ==
  LET s1 == LoadGradient(sh, settings, 1)
      s2 == set_uniform_float(s1, s1._u3DNoise, 1,
                              << JsBool(settings["flame-3d-noise"]) >>)
      s3 == set_uniform_float(s2, s2._uScale, 1,
                              << JsNum(settings["flame-scale"], 10) >>)
      s4 == set_uniform_float(s3, s3._uMovementSpeed, 1,
                              << JsNum(settings["flame-movement-speed"], 10) >>)
  IN  [s4 EXCEPT !.begun = TRUE]

\* ----------------------------------------------- preference page operations

\* The page a builder holds before getPreferences has bound anything.
NewPage ==
  [bound    |-> {},       \* the keys bound to their widgets
   clicked  |-> 0,        \* 'clicked' handlers on reset-fire-colors
   realize  |-> 0,        \* 'realize' handlers on fire-prefs
   raised   |-> "none",   \* where a lookup of a missing widget threw
   returned |-> FALSE,    \* getPreferences returned the page
   realized |-> 0,        \* history: the 'realize' events handled
   menus    |-> <<>>,     \* the menu models the preset button holds
   groups   |-> <<>>,     \* the action groups the root holds
   shown    |-> <<>>]     \* the value each bound widget displays

\* dialog.bindAdjustment(key), dialog.bindSwitch(key) and
\* dialog.bindColorButton(key): a standing link between the widget named
\* after the key and the key.
bindAdjustment(pg, key) == [pg EXCEPT !.bound = @ \cup {key}]

bindSwitch(pg, key) == [pg EXCEPT !.bound = @ \cup {key}]

bindColorButton(pg, key) == [pg EXCEPT !.bound = @ \cup {key}]

\* The bindings of a page carry the store's values to their widgets: when a
\* key is bound, and on every change of the key.
Display(pg, st) == [pg EXCEPT !.shown = [k \in pg.bound |-> st[k]]]

\* The store's change notifications reach the bindings of every page.
Sync(pgs, st) == [p \in 1 .. Len(pgs) |-> Display(pgs[p], st)]

\* builder.get_object(id) is null for an id the template lacks, and calling
\* a method of null throws a TypeError.
IsNull(tpl, id) == id \notin tpl

\* A faulty page builder that creates and attaches the menu and the action
\* group at once, instead of in a 'realize' handler.
_createFirePresets_Eager(pg, tpl) ==
  IF IsNull(tpl, "fire-prefs") \/ IsNull(tpl, "fire-preset-button")
  THEN [pg EXCEPT !.raised = "getPreferences"]
  ELSE [pg EXCEPT
          !.menus  = << [i \in 1 .. Len(presets) |->
                           [label  |-> presets[i].name,
                            action |-> <<"presets", <<"fire", i - 1>> >>]] >>,
          !.groups = << [name    |-> "presets",
                         actions |-> [i \in 1 .. Len(presets) |->
                                        [name   |-> <<"fire", i - 1>>,
                                         preset |-> i - 1]]] >>]

\* _createFirePresets(dialog): connects the 'realize' handler to fire-prefs.
_createFirePresets(pg, tpl) ==
  IF IsNull(tpl, "fire-prefs")
  THEN [pg EXCEPT !.raised = "getPreferences"]
  ELSE [pg EXCEPT !.realize = @ + 1]

\* A faulty page builder that looks every widget up before it binds
\* anything.
getPreferences_LookupFirst(tpl) ==
  IF IsNull(tpl, "reset-fire-colors") \/ IsNull(tpl, "fire-prefs")
     \/ IsNull(tpl, "fire-preset-button")
  THEN [NewPage EXCEPT !.raised = "getPreferences"]
  ELSE [NewPage EXCEPT !.bound = Keys, !.clicked = 1, !.realize = 1,
                       !.returned = TRUE]

\* A faulty page builder that leaves the last colour button unbound.
getPreferences_EightKeys(tpl) ==
  LET b1 == bindAdjustment(NewPage, "fire-animation-time")
      b2 == bindAdjustment(b1, "flame-movement-speed")
      b3 == bindAdjustment(b2, "flame-scale")
      b4 == bindSwitch(b3, "flame-3d-noise")
      b5 == bindColorButton(b4, "fire-color-1")
      b6 == bindColorButton(b5, "fire-color-2")
      b7 == bindColorButton(b6, "fire-color-3")
      b8 == bindColorButton(b7, "fire-color-4")
  IN  IF IsNull(tpl, "reset-fire-colors")
      THEN [b8 EXCEPT !.raised = "getPreferences"]
      ELSE LET c1 == [b8 EXCEPT !.clicked = @ + 1]
               c2 == _createFirePresets(c1, tpl)
           IN  IF c2.raised # "none" THEN c2
               ELSE [c2 EXCEPT !.returned = TRUE]

\* getPreferences(dialog), statement by statement; an exception leaves what
\* the statements before it did.
getPreferences(tpl) ==
  LET b1 == bindAdjustment(NewPage, "fire-animation-time")
      b2 == bindAdjustment(b1, "flame-movement-speed")
      b3 == bindAdjustment(b2, "flame-scale")
      b4 == bindSwitch(b3, "flame-3d-noise")
      b5 == bindColorButton(b4, "fire-color-1")
      b6 == bindColorButton(b5, "fire-color-2")
      b7 == bindColorButton(b6, "fire-color-3")
      b8 == bindColorButton(b7, "fire-color-4")
      b9 == bindColorButton(b8, "fire-color-5")
  IN  IF IsNull(tpl, "reset-fire-colors")
      THEN [b9 EXCEPT !.raised = "getPreferences"]
      ELSE LET c1 == [b9 EXCEPT !.clicked = @ + 1]
               c2 == _createFirePresets(c1, tpl)
           IN  IF c2.raised # "none" THEN c2
               ELSE [c2 EXCEPT !.returned = TRUE]

groupName == "presets"

\* 'fire' + i
actionName(i) == <<"fire", i>>

RECURSIVE AddPresets_OneBased(_, _)
\* A faulty loop: the actions are named from 1 on.
AddPresets_OneBased(mg, i) ==
  IF i >= Len(presets) THEN mg
  ELSE AddPresets_OneBased(
         [menu  |-> Append(mg.menu,
                           [label  |-> preset(i).name,
                            action |-> <<groupName, actionName(i + 1)>>]),
          group |-> Append(mg.group,
                           [name |-> actionName(i + 1), preset |-> i])],
         i + 1)

RECURSIVE AddPresets(_, _)
\* presets.forEach from index i on: one menu entry and one action per
\* preset, the action's handler closing over the preset (a reference to the
\* element of the array, held here as its index).
AddPresets(mg, i) ==
  IF i >= Len(presets) THEN mg
  ELSE AddPresets(
         [menu  |-> Append(mg.menu,
                           [label  |-> preset(i).name,
                            action |-> <<groupName, actionName(i)>>]),
          group |-> Append(mg.group,
                           [name |-> actionName(i), preset |-> i])],
         i + 1)

\* button.set_menu_model(menu): the button holds the one model set last.
set_menu_model(menus, menu) == <<menu>>

\* A faulty root: a group inserted under a name already taken is kept next
\* to the new one.
insert_action_group_Keep(groups, name, group) ==
  groups \o << [name |-> name, actions |-> group] >>

\* root.insert_action_group(name, group): a group already inserted under
\* the name is replaced.
insert_action_group(groups, name, group) ==
  SelectSeq(groups, LAMBDA g : g.name # name)
    \o << [name |-> name, actions |-> group] >>

\* The 'realize' handler of fire-prefs.
OnRealize(pg, tpl) ==
  LET mg == AddPresets([menu |-> <<>>, group |-> <<>>], 0)
  IN  IF IsNull(tpl, "fire-preset-button")
      THEN [pg EXCEPT !.realized = @ + 1, !.raised = "realize"]
      ELSE [pg EXCEPT
              !.realized = @ + 1,
              !.menus    = set_menu_model(@, mg.menu),
              !.groups   = insert_action_group(@, groupName, mg.group)]

RECURSIVE Closures(_, _, _)
\* The presets the 'activate' handlers of action gname.aname close over,
\* one per handler the activation runs.
Closures(groups, gname, aname) ==
  IF groups = <<>> THEN <<>>
  ELSE LET g    == Head(groups)
           here == IF g.name = gname
                   THEN SelectSeq(g.actions, LAMBDA a : a.name = aname)
                   ELSE <<>>
       IN  [j \in 1 .. Len(here) |-> here[j].preset]
             \o Closures(Tail(groups), gname, aname)

RECURSIVE HandlerWrites(_)
\* The writes of the handlers an activation runs, in order.
HandlerWrites(cs) ==
  IF cs = <<>> THEN <<>>
  ELSE PresetWrites(preset(Head(cs))) \o HandlerWrites(Tail(cs))

\* A faulty factory that hands out the instance it made first.
createShader_Pooled(cls, heap, st) ==
  LET first == (cls = "undefined")
  IN  [cls    |-> IF first THEN "ShaderClass" ELSE cls,
       regs   |-> IF first THEN 1 ELSE 0,
       heap   |-> IF heap = <<>> THEN <<ShaderInit(1, st)>> ELSE heap,
       result |-> 1]

\* createShader(): registers the class when this._ShaderClass is unset, then
\* constructs a new instance on the heap and returns its object id.
createShader(cls, heap, st) ==
  LET first == (cls = "undefined")
      id    == Len(heap) + 1
  IN  [cls    |-> IF first THEN "ShaderClass" ELSE cls,
       regs   |-> IF first THEN 1 ELSE 0,
       heap   |-> Append(heap, ShaderInit(id, st)),
       result |-> id]

\* ----------------------------------------------------------------- actions

Init ==
  /\ defaults \in Schemas
  /\ store = defaults
  /\ last = NoHandler
  /\ template \in Templates
  /\ pages = <<>>
  /\ ShaderClass = "undefined"
  /\ registered = 0
  /\ shaders = <<>>
  /\ returned = <<>>
  /\ recent = NoRecent

\* A preferences dialog calls getPreferences with a new dialog context, the
\* effect having served fewer than max of them.
DoGetPreferences(max) ==
  /\ Len(pages) < max
  /\ pages' = Append(pages, Display(getPreferences(template), store))
  /\ UNCHANGED <<defaults, store, last, template, ShaderClass, registered,
                 shaders, returned, recent>>

\* A faulty effect that keeps the dialog of the latest getPreferences call in
\* a field of its own, which the realize handlers use for the button lookup.
EmitRealize_Singleton(p) ==
  /\ pages[p].returned
  /\ pages[p].realize > 0
  /\ pages[p].realized < MaxRealize
  /\ pages' = [pages EXCEPT
                 ![p].realized = @ + 1,
                 ![p].groups = OnRealize(pages[p], template).groups,
                 ![Len(pages)].menus = OnRealize(pages[p], template).menus]
  /\ UNCHANGED <<defaults, store, last, template, ShaderClass, registered,
                 shaders, returned, recent>>

\* The toolkit emits 'realize' on the page root of page p.
EmitRealize(p) ==
  /\ pages[p].returned
  /\ pages[p].realize > 0
  /\ pages[p].realized < MaxRealize
  /\ pages' = [pages EXCEPT ![p] = OnRealize(@, template)]
  /\ UNCHANGED <<defaults, store, last, template, ShaderClass, registered,
                 shaders, returned, recent>>

\* The user clicks the reset button of page p.
ClickReset(p) ==
  /\ pages[p].returned
  /\ pages[p].clicked > 0
  /\ LET ws == ResetWrites(defaults)
     IN  /\ store' = ApplyWrites(store, ws)
         /\ last' = [op |-> "reset", page |-> p, name |-> <<>>,
                     n |-> pages[p].clicked, writes |-> ws]
         /\ recent' = [recent EXCEPT !.reset = TRUE]
  /\ pages' = Sync(pages, store')
  /\ UNCHANGED <<defaults, template, ShaderClass, registered, shaders,
                 returned>>

\* A faulty handler that also uploads the new values to the shaders whose
\* animation has begun.
ActivateAction_Reactive(p, i) ==
  /\ pages[p].menus # <<>>
  /\ LET entry == pages[p].menus[1][i]
         cs    == Closures(pages[p].groups, entry.action[1], entry.action[2])
         ws    == HandlerWrites(cs)
     IN  /\ cs # <<>>
         /\ store' = ApplyWrites(store, ws)
         /\ last' = [op |-> "preset", page |-> p, name |-> entry.action[2],
                     n |-> Len(cs), writes |-> ws]
         /\ recent' = [recent EXCEPT !.entry = i, !.reset = FALSE]
         /\ shaders' = [s \in 1 .. Len(shaders) |->
                          IF shaders[s].begun
                          THEN [shaders[s] EXCEPT
                                  !.slots = beginAnimation(shaders[s], store').slots]
                          ELSE shaders[s]]
  /\ pages' = Sync(pages, store')
  /\ UNCHANGED <<defaults, template, ShaderClass, registered, returned>>

\* A faulty handler that skips the write of a key which already holds the
\* preset's value.
ActivateAction_IfChanged(p, i) ==
  /\ pages[p].menus # <<>>
  /\ LET entry == pages[p].menus[1][i]
         cs    == Closures(pages[p].groups, entry.action[1], entry.action[2])
         ws    == SelectSeq(HandlerWrites(cs), LAMBDA w : store[w[1]] # w[2])
     IN  /\ cs # <<>>
         /\ store' = ApplyWrites(store, ws)
         /\ last' = [op |-> "preset", page |-> p, name |-> entry.action[2],
                     n |-> Len(cs), writes |-> ws]
         /\ recent' = [recent EXCEPT !.entry = i, !.reset = FALSE]
  /\ pages' = Sync(pages, store')
  /\ UNCHANGED <<defaults, template, ShaderClass, registered, shaders,
                 returned>>

\* The user picks entry i of the preset menu of page p: the action the
\* entry names is activated and its 'activate' handlers run.
ActivateAction(p, i) ==
  /\ pages[p].menus # <<>>
  /\ LET entry == pages[p].menus[1][i]
         cs    == Closures(pages[p].groups, entry.action[1], entry.action[2])
         ws    == HandlerWrites(cs)
     IN  /\ cs # <<>>
         /\ store' = ApplyWrites(store, ws)
         /\ last' = [op |-> "preset", page |-> p, name |-> entry.action[2],
                     n |-> Len(cs), writes |-> ws]
         /\ recent' = [recent EXCEPT !.entry = i, !.reset = FALSE]
  /\ pages' = Sync(pages, store')
  /\ UNCHANGED <<defaults, template, ShaderClass, registered, shaders,
                 returned>>

\* A write from outside the handlers of Fire.js.
ExternalWrite(e) ==
  /\ store[e[1]] # e[2]
  /\ store' = set_value(store, e[1], e[2])
  /\ last' = [op |-> "edit", page |-> 0, name |-> <<>>, n |-> 1,
              writes |-> << <<e[1], e[2]>> >>]
  /\ recent' = [recent EXCEPT !.others = @ \/ e[1] \in BundleKeys]
  /\ pages' = Sync(pages, store')
  /\ UNCHANGED <<defaults, template, ShaderClass, registered, shaders,
                 returned>>

\* The host asks the effect for a shader.
DoCreateShader ==
  /\ Len(shaders) < MaxShaders
  /\ LET r == createShader(ShaderClass, shaders, store)
     IN  /\ ShaderClass' = r.cls
         /\ registered' = registered + r.regs
         /\ shaders' = r.heap
         /\ returned' = Append(returned, r.result)
  /\ UNCHANGED <<defaults, store, last, template, pages, recent>>

\* A faulty shader class whose uniform values are shared: a beginAnimation
\* on one instance also overwrites the values of the others.
DoBeginAnimation_Shared(s) ==
  /\ ~shaders[s].begun
  /\ shaders' = [t \in 1 .. Len(shaders) |->
                   IF t = s THEN beginAnimation(shaders[t], store)
                   ELSE [shaders[t] EXCEPT
                           !.slots = beginAnimation(shaders[s], store).slots]]
  /\ UNCHANGED <<defaults, store, last, template, pages, ShaderClass,
                 registered, returned, recent>>

\* The host starts the animation of instance s, once per instance.
DoBeginAnimation(s) ==
  /\ ~shaders[s].begun
  /\ shaders' = [shaders EXCEPT ![s] = beginAnimation(@, store)]
  /\ UNCHANGED <<defaults, store, last, template, pages, ShaderClass,
                 registered, returned, recent>>

\* The user edits the widget bound to a key on page p, and the binding
\* writes the new value to the store.
WidgetEdit(p, e) ==
  /\ pages[p].returned
  /\ e[1] \in pages[p].bound
  /\ store[e[1]] # e[2]
  /\ store' = set_value(store, e[1], e[2])
  /\ last' = [op |-> "edit", page |-> p, name |-> <<>>, n |-> 1,
              writes |-> << e >>]
  /\ recent' = [recent EXCEPT !.others = @ \/ e[1] \in BundleKeys]
  /\ pages' = Sync(pages, store')
  /\ UNCHANGED <<defaults, template, ShaderClass, registered, shaders,
                 returned>>

\* The preference page alone: the dialog process, which creates no shader.
PrefsNext ==
  \/ DoGetPreferences(MaxPages)
  \/ \E p \in 1 .. Len(pages) : EmitRealize(p)
  \/ \E p \in 1 .. Len(pages) : ClickReset(p)
  \/ \E p \in 1 .. Len(pages) : \E i \in 1 .. Len(presets) :
       ActivateAction(p, i)
  \/ \E p \in 1 .. Len(pages) : \E e \in WidgetEdits : WidgetEdit(p, e)
  \/ \E e \in Edits : ExternalWrite(e)

SpecPrefs == Init /\ [][PrefsNext]_vars

\* The shader alone, started from any configuration: the store changes only
\* from outside.
InitConfig ==
  /\ defaults \in Schemas
  /\ store \in AnyConfigs
  /\ last = NoHandler
  /\ template = Referenced
  /\ pages = <<>>
  /\ ShaderClass = "undefined"
  /\ registered = 0
  /\ shaders = <<>>
  /\ returned = <<>>
  /\ recent = NoRecent

ShaderNext ==
  \/ \E e \in Edits : ExternalWrite(e)
  \/ DoCreateShader
  \/ \E s \in 1 .. Len(shaders) : DoBeginAnimation(s)

SpecShader == InitConfig /\ [][ShaderNext]_vars

\* The shaders next to an open preference page: the page of the shipped
\* template as getPreferences and its first realize event leave it, the
\* store at its defaults.
InitAnim ==
  /\ defaults \in Schemas
  /\ store = defaults
  /\ last = NoHandler
  /\ template = Referenced
  /\ pages = << OnRealize(Display(getPreferences(Referenced), defaults),
                          Referenced) >>
  /\ ShaderClass = "undefined"
  /\ registered = 0
  /\ shaders = <<>>
  /\ returned = <<>>
  /\ recent = NoRecent

AnimNext ==
  \/ \E p \in 1 .. Len(pages) : ClickReset(p)
  \/ \E p \in 1 .. Len(pages) : \E i \in 1 .. Len(presets) :
       ActivateAction(p, i)
  \/ \E e \in AnimEdits : ExternalWrite(e)
  \/ DoCreateShader
  \/ \E s \in 1 .. Len(shaders) : DoBeginAnimation(s)

SpecAnim == InitAnim /\ [][AnimNext]_vars

\* The effect object serving several dialogs and the host: getPreferences
\* calls on the shipped template next to createShader calls.
InitEffect ==
  /\ defaults \in Schemas
  /\ store = defaults
  /\ last = NoHandler
  /\ template = Referenced
  /\ pages = <<>>
  /\ ShaderClass = "undefined"
  /\ registered = 0
  /\ shaders = <<>>
  /\ returned = <<>>
  /\ recent = NoRecent

EffectNext ==
  \/ DoGetPreferences(MaxDialogs)
  \/ \E p \in 1 .. Len(pages) : EmitRealize(p)
  \/ \E p \in 1 .. Len(pages) : ClickReset(p)
  \/ \E p \in 1 .. Len(pages) : \E i \in 1 .. Len(presets) :
       ActivateAction(p, i)
  \/ DoCreateShader

SpecEffect == InitEffect /\ [][EffectNext]_vars

\* The preference page and the shaders over one store.
Next ==
  \/ DoGetPreferences(MaxPages)
  \/ \E p \in 1 .. Len(pages) : EmitRealize(p)
  \/ \E p \in 1 .. Len(pages) : ClickReset(p)
  \/ \E p \in 1 .. Len(pages) : \E i \in 1 .. Len(presets) :
       ActivateAction(p, i)
  \/ \E e \in Edits : ExternalWrite(e)
  \/ DoCreateShader
  \/ \E s \in 1 .. Len(shaders) : DoBeginAnimation(s)

Spec == Init /\ [][Next]_vars

\* -------------------------------------------------------------- properties

\* Colour j of a preset.
PresetColor(pr, j) ==
  CASE j = 1 -> pr.color1
    [] j = 2 -> pr.color2
    [] j = 3 -> pr.color3
    [] j = 4 -> pr.color4
    [] j = 5 -> pr.color5

\* The preset index i of the action named 'fire' + i.
IndexOf(name) == name[2]

\* C1: when the last handler that wrote the store is the activation of preset
\* action i, the store holds preset i's literal scale, speed and five colours,
\* whatever it held before; 'Hell Fire' leaves scale 1.5 and speed 0.2.
C1_PresetReadBack ==
  last.op = "preset" =>
    LET pr == preset(IndexOf(last.name))
    IN  /\ store["flame-scale"] = pr.scale
        /\ store["flame-movement-speed"] = pr.speed
        /\ \A j \in 1 .. 5 : store[ColorKey(j)] = PresetColor(pr, j)
        /\ (pr.name = "Hell Fire" =>
              /\ store["flame-scale"] = 15
              /\ store["flame-movement-speed"] = 2)

\* 'Hell Fire' has just been activated on a page.
C1_Witness ==
  /\ last.op = "preset"
  /\ last.name = actionName(1)
  /\ store["flame-scale"] = 15
  /\ store["flame-movement-speed"] = 2
  /\ store["fire-color-4"] = Rgb(255, 200, 0)

\* C5: when the last handler that wrote the store is the reset button's, all
\* five colour keys hold their declared defaults.
C5_ResetRestoresDefaults ==
  last.op = "reset" =>
    \A j \in 1 .. 5 : store[ColorKey(j)] = defaults[ColorKey(j)]

\* The reset button has just been clicked in a store whose scale and speed
\* are those 'Santa is Coming' left.
C5_Witness ==
  /\ last.op = "reset"
  /\ store["flame-scale"] = 4
  /\ store["flame-movement-speed"] = -5
  /\ \A j \in 1 .. 5 : store[ColorKey(j)] = defaults[ColorKey(j)]

\* The action groups of a page's root registered under a name.
GroupsNamed(pg, name) == SelectSeq(pg.groups, LAMBDA g : g.name = name)

\* C6: after one or more realize events that attached the menu, the root holds
\* exactly one action group named 'presets', the preset button holds exactly
\* one menu with one entry per preset, and an activation of action fire<i>
\* runs one handler, which applies preset i.
C6_RealizeIdempotent ==
  /\ \A p \in 1 .. Len(pages) :
       (pages[p].realized >= 1 /\ pages[p].raised = "none") =>
         /\ Len(GroupsNamed(pages[p], groupName)) = 1
         /\ Len(pages[p].groups) = 1
         /\ Len(pages[p].menus) = 1
         /\ Len(pages[p].menus[1]) = Len(presets)
         /\ \A i \in PresetIndex :
              Closures(pages[p].groups, groupName, actionName(i)) = <<i>>
  /\ last.op = "preset" =>
       /\ last.n = 1
       /\ last.writes = PresetWrites(preset(IndexOf(last.name)))

\* A preset has been activated on a page that handled two realize events.
C6_Witness ==
  /\ last.op = "preset"
  /\ last.page \in 1 .. Len(pages)
  /\ pages[last.page].realized = 2
  /\ Len(pages[last.page].groups) = 1

\* C10: the menu has one entry per preset, in the order of the preset list,
\* entry i labelled with preset i's name and routed to 'presets.fire<i>'; the
\* group has exactly the actions fire0 .. fire(N-1); and action fire<i> runs
\* the handler that closes over the preset at position i, and no other.
C10_MenuMatchesPresets ==
  \A p \in 1 .. Len(pages) :
    pages[p].menus # <<>> =>
      LET menu  == pages[p].menus[1]
          group == GroupsNamed(pages[p], groupName)[1].actions
      IN  /\ Len(menu) = Len(presets)
          /\ Len(group) = Len(presets)
          /\ \A i \in PresetIndex :
               /\ menu[i + 1].label = presets[i + 1].name
               /\ menu[i + 1].action = <<groupName, <<"fire", i>> >>
               /\ group[i + 1].name = <<"fire", i>>
               /\ Closures(pages[p].groups, groupName, <<"fire", i>>) = <<i>>
          /\ {group[j].name : j \in 1 .. Len(group)}
               = {<<"fire", i>> : i \in 0 .. (Len(presets) - 1)}

\* The menu is attached and its last entry has been activated.
C10_Witness ==
  /\ last.op = "preset"
  /\ last.name = <<"fire", Len(presets) - 1>>
  /\ pages[last.page].menus # <<>>
  /\ store["fire-color-4"] = Rgb(208, 243, 255)

FloatsOfColour(str) ==
  LET c == from_string(str)
  IN  << [n |-> c.red, d |-> 255], [n |-> c.green, d |-> 255],
         [n |-> c.blue, d |-> 255], [n |-> c.alpha, d |-> 255] >>

\* The uniform values a store stands for.
SnapshotOf(st) ==
  [l \in Locations |->
     CASE UniformNames[l] = "u3DNoise" ->
            << [n |-> IF st["flame-3d-noise"] THEN 1 ELSE 0, d |-> 1] >>
       [] UniformNames[l] = "uScale" ->
            << [n |-> st["flame-scale"], d |-> 10] >>
       [] UniformNames[l] = "uMovementSpeed" ->
            << [n |-> st["flame-movement-speed"], d |-> 10] >>
       [] OTHER -> FloatsOfColour(st[ColorKey(l)])]

\* Instance s has its animation begun in this step.
Begins(s) == ~shaders[s].begun /\ shaders'[s].begun

\* C2: a constructed instance has no uniform written; once beginAnimation
\* has run on it, each of the eight slots has been written exactly once,
\* every gradient slot holds four floats in [0, 1], and u3DNoise holds the
\* one float 0 or 1.
C2_OneWritePerUniform ==
  \A s \in 1 .. Len(shaders) :
    LET sh == shaders[s]
    IN  /\ ~sh.begun => \A l \in Locations : sh.nwrites[l] = 0
        /\ sh.begun =>
             /\ \A l \in Locations : sh.nwrites[l] = 1
             /\ \A g \in 1 .. 5 :
                  LET v == sh.slots[get_uniform_location(UniformNames[g])]
                  IN  /\ Len(v) = 4
                      /\ \A j \in 1 .. 4 :
                           v[j].d > 0 /\ 0 <= v[j].n /\ v[j].n <= v[j].d
             /\ sh.slots[get_uniform_location("u3DNoise")]
                  \in { << [n |-> 0, d |-> 1] >>, << [n |-> 1, d |-> 1] >> }
             /\ Len(sh.slots[get_uniform_location("uScale")]) = 1
             /\ Len(sh.slots[get_uniform_location("uMovementSpeed")]) = 1

\* An animation has begun over a store whose first colour has a channel
\* above 255 and whose second has a channel below 0.
C2_Witness ==
  /\ store["fire-color-1"].r > 255
  /\ store["fire-color-2"].r < 0
  /\ \E s \in 1 .. Len(shaders) :
       /\ shaders[s].begun
       /\ shaders[s].slots[get_uniform_location("uGradient1")][1]
            = [n |-> 255, d |-> 255]

\* C3: once beginAnimation has run on an instance, no step changes its
\* uniform values, which are the ones the store stood for in the step that
\* began the animation.
C3_SnapshotIsFrozen ==
  [][\A s \in 1 .. Len(shaders) :
       /\ shaders[s].begun =>
            /\ shaders'[s].begun
            /\ shaders'[s].slots = shaders[s].slots
            /\ shaders'[s].nwrites = shaders[s].nwrites
       /\ Begins(s) => shaders'[s].slots = SnapshotOf(store)]_vars

\* An animation has begun and a preset activated afterwards has changed the
\* store: the instance still holds the scale of before.
C3_Witness ==
  /\ last.op = "preset"
  /\ \E s \in 1 .. Len(shaders) :
       /\ shaders[s].begun
       /\ shaders[s].slots[get_uniform_location("uScale")]
            # << [n |-> store["flame-scale"], d |-> 10] >>
       /\ shaders[s].slots # SnapshotOf(store)

\* C4: the step that begins an animation writes what the store stands for in
\* that step (u3DNoise is [1.0] when flame-3d-noise is true then), whatever
\* the store held when the instance was constructed; construction writes no
\* uniform.
C4_ReadAtBeginAnimation ==
  [][\A s \in 1 .. Len(shaders') :
       /\ ~shaders'[s].begun =>
            \A l \in Locations : shaders'[s].slots[l] = NotSet
       /\ (s <= Len(shaders) /\ Begins(s)) =>
            /\ shaders'[s].slots = SnapshotOf(store')
            /\ store'["flame-3d-noise"] =>
                 shaders'[s].slots[get_uniform_location("u3DNoise")]
                   = << [n |-> 1, d |-> 1] >>]_vars

\* An instance constructed while flame-3d-noise was false has begun its
\* animation after the key was set to true, and holds u3DNoise = [1.0].
C4_Witness ==
  \E s \in 1 .. Len(shaders) :
    /\ shaders[s].begun
    /\ ~shaders[s].ctorNoise
    /\ shaders[s].slots[get_uniform_location("u3DNoise")]
         = << [n |-> 1, d |-> 1] >>

\* C7: over any sequence of createShader calls the class has been registered
\* exactly once, by the first call, and the calls returned pairwise distinct
\* objects, each an instance of the heap.
C7_FreshInstancePerCall ==
  /\ registered = (IF returned = <<>> THEN 0 ELSE 1)
  /\ (returned # <<>>) = (ShaderClass # "undefined")
  /\ \A a, b \in 1 .. Len(returned) : a # b => returned[a] # returned[b]
  /\ \A a \in 1 .. Len(returned) :
       /\ returned[a] \in 1 .. Len(shaders)
       /\ shaders[returned[a]].id = returned[a]
  /\ Len(shaders) = Len(returned)

\* createShader has been called twice.
C7_Witness ==
  /\ Len(returned) = 2
  /\ returned[1] # returned[2]
  /\ registered = 1

\* The store a preset's bundle stands for, the other keys as in st.
WithBundle(st, pr) ==
  [k \in Keys |->
     CASE k = "flame-scale"          -> pr.scale
       [] k = "flame-movement-speed" -> pr.speed
       [] k = "fire-color-1"         -> pr.color1
       [] k = "fire-color-2"         -> pr.color2
       [] k = "fire-color-3"         -> pr.color3
       [] k = "fire-color-4"         -> pr.color4
       [] k = "fire-color-5"         -> pr.color5
       [] OTHER                      -> st[k]]

C13_LocationsResolvedOnce ==
  \A s \in 1 .. Len(shaders) :
    LET sh == shaders[s]
    IN  /\ \A l \in Locations : sh.resolved[l] = 1
        /\ \A g \in 1 .. 5 :
             sh._uGradient[g] = get_uniform_location(UniformNames[g])
        /\ sh._u3DNoise = get_uniform_location("u3DNoise")
        /\ sh._uScale = get_uniform_location("uScale")
        /\ sh._uMovementSpeed = get_uniform_location("uMovementSpeed")
        /\ Cardinality({sh._uGradient[g] : g \in 1 .. 5}
                         \cup {sh._u3DNoise, sh._uScale, sh._uMovementSpeed})
             = Len(UniformNames)
        /\ \A l \in Locations :
             sh.nwrites[l] > 0 =>
               /\ sh.resolved[l] = 1
               /\ l \in {sh._uGradient[g] : g \in 1 .. 5}
                          \cup {sh._u3DNoise, sh._uScale, sh._uMovementSpeed}

\* One instance has its animation begun, with all eight uniforms written,
\* next to one that is constructed only.
C13_Witness ==
  \E s, t \in 1 .. Len(shaders) :
    /\ shaders[s].begun
    /\ \A l \in Locations : shaders[s].nwrites[l] = 1 /\ shaders[s].resolved[l] = 1
    /\ ~shaders[t].begun
    /\ \A l \in Locations : shaders[t].resolved[l] = 1

\* C14: a page that has handled no realize event holds no preset menu, no
\* action group and no preset action, so nothing can activate a preset on
\* it; a preset activation that wrote the store ran on a page that had
\* handled a realize event.
C14_PresetsOnlyAfterRealize ==
  /\ \A p \in 1 .. Len(pages) :
       /\ pages[p].realized = 0 =>
            /\ pages[p].menus = <<>>
            /\ pages[p].groups = <<>>
            /\ \A i \in PresetIndex :
                 Closures(pages[p].groups, groupName, actionName(i)) = <<>>
            /\ ~ \E i \in 1 .. Len(presets) : ENABLED ActivateAction(p, i)
       /\ (pages[p].menus # <<>> \/ pages[p].groups # <<>>) =>
            pages[p].realized >= 1
  /\ last.op = "preset" =>
       /\ last.page \in 1 .. Len(pages)
       /\ pages[last.page].realized >= 1

\* getPreferences has returned a page with its realize handler connected,
\* no realize event has fired yet, and the reset button has already been
\* clicked on it.
C14_Witness ==
  \E p \in 1 .. Len(pages) :
    /\ pages[p].returned
    /\ pages[p].realize = 1
    /\ pages[p].realized = 0
    /\ pages[p].menus = <<>>
    /\ last.op = "reset"
    /\ last.page = p

\* The values of a preset, each with the key it belongs to.
BundleOf(pr) ==
  { <<"flame-movement-speed", pr.speed>>, <<"flame-scale", pr.scale>>,
    <<"fire-color-1", pr.color1>>, <<"fire-color-2", pr.color2>>,
    <<"fire-color-3", pr.color3>>, <<"fire-color-4", pr.color4>>,
    <<"fire-color-5", pr.color5>> }

\* C15 as stated: an activation of preset action i performs exactly six
\* store writes, which together are all the values of preset i.
C15_SixWrites ==
  last.op = "preset" =>
    /\ Len(last.writes) = 6
    /\ {last.writes[j] : j \in 1 .. Len(last.writes)}
         = BundleOf(preset(IndexOf(last.name)))

\* C15, amended: an activation of preset action i performs exactly seven
\* store writes, one per key of the bundle (the speed, the scale and the
\* five colours), which together are all the values of preset i; each is
\* made whatever the store holds, also when it already holds that value.
C15_SevenUnconditionalWrites ==
  [][\A p \in 1 .. Len(pages) : \A i \in 1 .. Len(presets) :
       ActivateAction(p, i) =>
         LET ws == last'.writes
         IN  /\ last'.op = "preset"
             /\ last'.name = actionName(i - 1)
             /\ Len(ws) = 7
             /\ \A a, b \in 1 .. Len(ws) : a # b => ws[a][1] # ws[b][1]
             /\ {ws[j] : j \in 1 .. Len(ws)} = BundleOf(preset(i - 1))
             /\ \A j \in 1 .. Len(ws) : store'[ws[j][1]] = ws[j][2]]_vars

\* 'Default Fire' has been activated over a store that held every one of
\* its seven values already, and all seven writes were made.
C15_Witness ==
  /\ last.op = "preset"
  /\ last.name = actionName(0)
  /\ Len(last.writes) = 7
  /\ store = defaults
  /\ \A j \in 1 .. 7 : defaults[last.writes[j][1]] = last.writes[j][2]

\* The keys a step leaves with the value they had.
Kept(ks) == \A k \in ks : store'[k] = store[k]

\* C16: a preset activation changes no key other than flame-movement-speed,
\* flame-scale and fire-color-1..5, and a click on the reset button changes
\* no key other than fire-color-1..5; neither adds or removes a key.
C16_HandlerFrames ==
  [][\A p \in 1 .. Len(pages) :
       /\ ClickReset(p) =>
            /\ DOMAIN store' = Keys
            /\ Kept(Keys \ {"fire-color-1", "fire-color-2", "fire-color-3",
                             "fire-color-4", "fire-color-5"})
            /\ Kept({"flame-scale", "flame-movement-speed", "flame-3d-noise",
                     "fire-animation-time"})
       /\ \A i \in 1 .. Len(presets) :
            ActivateAction(p, i) =>
              /\ DOMAIN store' = Keys
              /\ Kept(Keys \ {"flame-movement-speed", "flame-scale",
                               "fire-color-1", "fire-color-2", "fire-color-3",
                               "fire-color-4", "fire-color-5"})
              /\ Kept({"flame-3d-noise", "fire-animation-time"})]_vars

\* The reset button has been clicked over a store whose scale and switch
\* differ from their defaults, and both still do.
C16_Witness ==
  /\ last.op = "reset"
  /\ store["flame-scale"] = 20
  /\ store["flame-scale"] # defaults["flame-scale"]
  /\ store["flame-3d-noise"] # defaults["flame-3d-noise"]
  /\ \A j \in 1 .. 5 : store[ColorKey(j)] = defaults[ColorKey(j)]

\* C18: a step that begins the animation of one instance gives that
\* instance the snapshot of the store of that step and changes no other
\* instance; a createShader call changes no existing instance; and no step
\* that creates an instance or begins an animation writes the store.
C18_InstancesIsolated ==
  [][/\ \A s \in 1 .. Len(shaders) :
          Begins(s) =>
            /\ shaders'[s].slots = SnapshotOf(store)
            /\ \A t \in 1 .. Len(shaders) : t # s => shaders'[t] = shaders[t]
            /\ Len(shaders') = Len(shaders)
     /\ Len(shaders') # Len(shaders) =>
          /\ Len(shaders') = Len(shaders) + 1
          /\ \A t \in 1 .. Len(shaders) : shaders'[t] = shaders[t]
     /\ (shaders' # shaders \/ returned' # returned
           \/ ShaderClass' # ShaderClass) =>
          /\ store' = store
          /\ last' = last]_vars

\* Two instances have begun their animations, a preset activated between
\* the two: each holds its own snapshot, the second that of the store now.
C18_Witness ==
  /\ last.op = "preset"
  /\ \E s, t \in 1 .. Len(shaders) :
       /\ shaders[s].begun
       /\ shaders[t].begun
       /\ shaders[s].slots # shaders[t].slots
       /\ shaders[t].slots = SnapshotOf(store)
       /\ shaders[s].slots = SnapshotOf(defaults)

\* C17: over any sequence of preset activations and clicks on the reset
\* button, with no other writer of the bundle's keys, flame-scale and
\* flame-movement-speed are those of the preset of the menu entry picked
\* last, and fire-color-1..5 are that preset's colours if no reset came
\* after that activation, the declared defaults if one did.
C17_LastWriterWins ==
  ~recent.others =>
    /\ recent.entry > 0 =>
         /\ store["flame-scale"] = presets[recent.entry].scale
         /\ store["flame-movement-speed"] = presets[recent.entry].speed
    /\ (recent.entry > 0 /\ ~recent.reset) =>
         \A j \in 1 .. 5 :
           store[ColorKey(j)] = PresetColor(presets[recent.entry], j)
    /\ recent.reset =>
         \A j \in 1 .. 5 : store[ColorKey(j)] = defaults[ColorKey(j)]

\* 'Cold Breeze' was activated after other presets and a reset, and the
\* reset button was clicked after it: its scale and speed stand, its colours
\* have given way to the defaults.
C17_Witness ==
  /\ ~recent.others
  /\ recent.entry = 4
  /\ recent.reset
  /\ last.op = "reset"
  /\ store["flame-scale"] = 15
  /\ store["flame-movement-speed"] = -1
  /\ store["fire-color-5"] # Rgb(97, 189, 255)
  /\ store["fire-color-5"] = defaults["fire-color-5"]

\* C12: on a page getPreferences has returned, the widget of each of the
\* nine keys is bound and displays the store's value of its key; so after a
\* preset activation or a reset the sliders and colour buttons of the page,
\* which is the one built before, show the values written. A widget bound
\* on a page that was not returned displays the store's value as well.
C12_WidgetsShowStore ==
  \A p \in 1 .. Len(pages) :
    /\ pages[p].returned =>
         \A k \in Keys :
           /\ k \in pages[p].bound
           /\ k \in DOMAIN pages[p].shown
           /\ pages[p].shown[k] = store[k]
    /\ DOMAIN pages[p].shown = pages[p].bound
    /\ \A k \in pages[p].bound : pages[p].shown[k] = store[k]

\* 'Hell Fire' has been activated on a page that showed the defaults
\* before: its widgets show the preset's scale, speed and fourth colour.
C12_Witness ==
  /\ last.op = "preset"
  /\ last.name = actionName(1)
  /\ defaults["flame-scale"] # 15
  /\ pages[last.page].bound = Keys
  /\ pages[last.page].shown["flame-scale"] = 15
  /\ pages[last.page].shown["flame-movement-speed"] = 2
  /\ pages[last.page].shown["fire-color-4"] = Rgb(255, 200, 0)

\* What a step leaves of a page: everything but what its widgets display.
SamePage(p) ==
  [pages'[p] EXCEPT !.shown = pages[p].shown] = pages[p]

\* C11: a getPreferences call changes no field of the effect (the shader
\* class, registered or not, included), no page built before and no key of
\* the store, and yields a page with its own nine bindings and its own two
\* handlers; the realize handler of a page changes that page only, and a
\* reset or an activation on one page changes no page but for the values
\* the bound widgets display, and no field of the effect.
C11_NoStateOnEffect ==
  [][/\ Len(pages') # Len(pages) =>
          /\ Len(pages') = Len(pages) + 1
          /\ ShaderClass' = ShaderClass
          /\ registered' = registered
          /\ shaders' = shaders
          /\ store' = store
          /\ last' = last
          /\ \A q \in 1 .. Len(pages) : pages'[q] = pages[q]
          /\ LET new == pages'[Len(pages')]
             IN  /\ new.returned
                 /\ new.bound = Keys
                 /\ new.clicked = 1
                 /\ new.realize = 1
                 /\ new.realized = 0
                 /\ new.menus = <<>>
                 /\ new.groups = <<>>
                 /\ new.shown = store
     /\ \A p \in 1 .. Len(pages) :
          /\ pages'[p].realized # pages[p].realized =>
               /\ \A q \in 1 .. Len(pages) : q # p => pages'[q] = pages[q]
               /\ pages'[p].menus # <<>>
               /\ pages'[p].groups # <<>>
               /\ ShaderClass' = ShaderClass
               /\ store' = store
          /\ pages'[p].clicked = pages[p].clicked
          /\ pages'[p].realize = pages[p].realize
          /\ pages'[p].bound = pages[p].bound
     /\ store' # store =>
          /\ ShaderClass' = ShaderClass
          /\ shaders' = shaders
          /\ Len(pages') = Len(pages)
          /\ \A q \in 1 .. Len(pages) : SamePage(q)
          /\ last'.page \in 1 .. Len(pages)
          /\ pages[last'.page].returned]_vars

\* With the shader class registered, a second page has been built next to
\* a realized first one; a preset was activated on the first, the second
\* still waits for its realize event and shows the preset's values.
C11_Witness ==
  /\ ShaderClass # "undefined"
  /\ Len(pages) = 2
  /\ pages[1].realized >= 1
  /\ pages[1].menus # <<>>
  /\ pages[2].returned
  /\ pages[2].realized = 0
  /\ pages[2].menus = <<>>
  /\ pages[2].groups = <<>>
  /\ last.op = "preset"
  /\ last.page = 1
  /\ pages[2].shown = store
  /\ store # defaults

=============================================================================
